---- MODULE Spec2Model ----
(***************************************************************************)
(* qPro's retrieval core, src/app/rag.py: the lazily initialised Chroma    *)
(* store (_init_chroma), ingestion (ingest_text), retrieval (search) and   *)
(* generation (generate_application), called from several request threads  *)
(* (FastAPI runs the plain "def" routes of src/app/main.py in a pool).     *)
(*                                                                         *)
(* Spec     the callers of Threads interleaved statement by statement      *)
(*          inside _init_chroma; each operation's body after the init is   *)
(*          one step.                                                      *)
(* SpecGen  the reply handling of generate_application (rag.py 351-364) as *)
(*          a function of the chat model's text, over every reply of at    *)
(*          most MaxTextLen tokens.                                        *)
(***************************************************************************)
EXTENDS Integers, Sequences, FiniteSets, TLC

VARIABLES
    client,      \* rag.py:30  the module global _client (NoHandle = None)
    collection,  \* rag.py:31  the module global _collection
    disk,        \* the directory CHROMA_PATH: its state and the chunks in it
    nobj,        \* per caller: how many client / collection objects it made
    ncalls,      \* how many operations were started
    pc,          \* per caller: the statement it is at
    op,          \* per caller: the operation it runs
    reset,       \* per caller: _init_chroma's reset_if_broken
    got,         \* per caller: what _init_chroma returned to it
    ndel,        \* per caller: shutil.rmtree calls made by its current call
    ntry,        \* per caller: creation attempts made by its current call
    arg,         \* per caller: the text and metadata its ingest_text was given
    ret,         \* per caller: the outcome of its last operation
    lastIngest,  \* per doc id: the text last ingested, its ids, the count then
    handed,      \* the handles the first successful _init_chroma returned
    late,        \* per caller: its call began after that first return
    log,         \* what the process has logged or printed
    content,     \* SpecGen: the chat model's reply
    draft,       \* SpecGen: what generate_application makes of it
    inp,         \* the arguments of the function a function spec runs
    out,         \* what that function has built or returned
    ci,          \* its loop variable: _chunk's offset i, do_ingest's file
    fpc          \* where that function is: "idle", "start", "loop", "done"

vars == <<client, collection, disk, nobj, ncalls, pc, op, reset, got, ndel,
          ntry, arg, ret, lastIngest, handed, late, log, content, draft,
          inp, out, ci, fpc>>

storeVars == <<client, collection, disk, nobj, ncalls, pc, op, reset, got,
               ndel, ntry, arg, ret, lastIngest, handed, late, log>>

funVars == <<inp, out, ci, fpc>>

genVars == <<content, draft, funVars>>

-----------------------------------------------------------------------------
(* Bounds of the model *)

MaxCalls == 3

Threads == {"t1", "t2"}

(* Program constants *)

(* rag.py:30-31  None; an object is known by its maker and its number      *)
NoHandle == <<>>

ChunkSize == 900

Overlap == 150

DefaultK == 8

-----------------------------------------------------------------------------
(* Texts.  A text is a sequence of characters; " " stands for whitespace.  *)

Min(a, b) == IF a < b THEN a ELSE b

Max(a, b) == IF a < b THEN b ELSE a

IsBlank(s) == \A i \in 1..Len(s) : s[i] = " "

(* Python's text[i:j] for i >= 0: a negative j counts from the end         *)
PySlice(text, i, j) ==
    LET n == Len(text)
        hi == IF j < 0 THEN Max(0, n + j) ELSE Min(j, n)
    IN  IF hi <= i THEN <<>> ELSE SubSeq(text, i + 1, hi)

(* A stride that is not clamped.                                            *)
StrideUnclamped(chunk, overlap) == chunk - overlap

(* A stride of a whole chunk: no overlap.                                   *)
StrideNoOverlap(chunk, overlap) == Max(1, chunk)

(* rag.py:104  step = max(1, chunk - overlap)                               *)
Stride(chunk, overlap) == Max(1, chunk - overlap)

RECURSIVE ChunkLoop(_, _, _, _)
ChunkLoop(text, i, chunk, step) ==
    IF i >= Len(text) THEN <<>>
    ELSE LET piece == PySlice(text, i, i + chunk)
         IN  IF IsBlank(piece) THEN <<>>
             ELSE <<piece>> \o ChunkLoop(text, i + step, chunk, step)

_chunk(text, chunk, overlap) ==
    ChunkLoop(text, 0, chunk, Stride(chunk, overlap))

(* The documents callers ingest: "long" makes two chunks, "short" one.     *)
TextNames == {"long", "short"}

TextBody ==
    [x \in TextNames |->
        IF x = "long" THEN [i \in 1..800 |-> "a"] ELSE [i \in 1..5 |-> "b"]]

(* ingest_text's parts = _chunk(text).  The store keeps a part as the name *)
(* of its text and its index; its characters are Parts[x][i].              *)
Parts == [x \in TextNames |-> _chunk(TextBody[x], ChunkSize, Overlap)]

Piece(x, i) == [text |-> x, idx |-> i]

PieceLen(p) == Len(Parts[p.text][p.idx + 1])

-----------------------------------------------------------------------------
(* Metadata: a mapping from keys to values; a value is its Python type and *)
(* its content: a tuple of strings, and for a list or a dict the sequence   *)
(* of its member values.                                                    *)

Str(s) == [ty |-> "str", v |-> s]

Lit(s) == Str(<<s>>)

ScalarTypes == {"str", "int", "float", "bool", "none"}

ContainerTypes == {"list", "dict"}

(* json.dumps(v) without a default: a value that is no scalar, list or     *)
(* dict, at any depth, is a TypeError.                                      *)
RECURSIVE JsonOk(_)
JsonOk(val) ==
    IF val.ty \in ScalarTypes THEN TRUE
    ELSE IF val.ty \in ContainerTypes
    THEN \A i \in 1..Len(val.v) : JsonOk(val.v[i])
    ELSE FALSE

RECURSIVE JsonItems(_, _)
RECURSIVE JsonText(_)
JsonText(val) ==
    IF val.ty \in ContainerTypes
    THEN <<val.ty, "(">> \o JsonItems(val.v, 1) \o <<")">>
    ELSE val.v

JsonItems(items, i) ==
    IF i > Len(items) THEN <<>>
    ELSE JsonText(items[i]) \o JsonItems(items, i + 1)

(* rag.py:121-122  json.dumps raises for some value of the mapping          *)
CoerceRaises(meta) ==
    \E k \in DOMAIN meta : meta[k].ty \in ContainerTypes /\ ~JsonOk(meta[k])

CoerceValue(val) ==
    IF val.ty \in ScalarTypes THEN val
    ELSE IF val.ty \in ContainerTypes THEN Str(JsonText(val))
    ELSE IF val.ty \in {"date", "datetime"} THEN Str(<<"iso">> \o val.v)
    ELSE Str(<<"str">> \o val.v)

_coerce_meta(meta) == [k \in DOMAIN meta |-> CoerceValue(meta[k])]

(* rag.py:115-128  a call of _coerce_meta: its return value or exception    *)
coerce(meta) ==
    IF CoerceRaises(meta) THEN [kind |-> "raised",
                                err |-> [what |-> "TypeError", attempt |-> 0]]
    ELSE [kind |-> "ok", val |-> _coerce_meta(meta)]

MetaInputs ==
    { [k \in {"doc_id"} |-> Lit("a")],
      [k \in {"title", "tags"} |->
          IF k = "title" THEN Lit("a")
          ELSE [ty |-> "list", v |-> <<Lit("cv")>>]] }

(* rag.py:237  meta.get('doc_id', meta.get('title', 'doc')), formatted     *)
DocIdOf(meta) ==
    IF "doc_id" \in DOMAIN meta THEN meta["doc_id"].v
    ELSE IF "title" \in DOMAIN meta THEN meta["title"].v
    ELSE <<"doc">>

(* Ids that carry the number of the call, so that no two ingestions share   *)
(* an id.                                                                   *)
ChunkIdsPerCall(meta, n) ==
    [i \in 1..n |-> <<DocIdOf(meta), i - 1 + 10 * ncalls>>]

(* rag.py:237  the id of part i is "<doc id>-<i>", i from 0                *)
ChunkIds(meta, n) == [i \in 1..n |-> <<DocIdOf(meta), i - 1>>]

(* The files ingest_file is given.  A file has a stem and an extension; it *)
(* is missing, or cannot be opened ("denied"), or is no UTF-8 text          *)
(* ("undecodable"), or is not of its format ("corrupt"), or is "ok" and     *)
(* holds a text.                                                            *)
File(stem, ext, at, x) == [stem |-> stem, ext |-> ext, at |-> at, text |-> x]

FileKinds ==
    { File("a", "md", "ok", "short"),
      File("a", "md", "denied", "short"),
      File("a", "md", "undecodable", "short"),
      File("b", "pdf", "ok", "long"),
      File("b", "pdf", "corrupt", "long"),
      File("b", "pdf", "missing", "long") }

(* rag.py:254-259, 267-272  the metadata ingest_file gives to ingest_text   *)
FileMeta(f) ==
    IF f.ext = "md"
    THEN [k \in {"filename", "type", "doc_id"} |->
             IF k = "filename" THEN Str(<<f.stem, f.ext>>)
             ELSE IF k = "type" THEN Lit("markdown")
             ELSE Lit(f.stem)]
    ELSE [k \in {"filename", "type", "doc_id", "source_ext"} |->
             IF k = "filename" THEN Str(<<f.stem, f.ext>>)
             ELSE IF k = "type" THEN Lit("file")
             ELSE IF k = "doc_id" THEN Lit(f.stem)
             ELSE Lit(f.ext)]

DocIds ==
    {DocIdOf(_coerce_meta(m)) : m \in MetaInputs}
        \cup {DocIdOf(FileMeta(f)) : f \in FileKinds}

-----------------------------------------------------------------------------
(* Embeddings.  ollama.embeddings answers each prompt with a vector ("vec") *)
(* or with something that is no list ("bad").  The stand-in model is        *)
(* deterministic and one-dimensional: a text's vector is its length.        *)

Embedding(text) == Len(text)

RECURSIVE EmbedLoop(_, _, _)
EmbedLoop(texts, resp, i) ==
    IF i > Len(texts) THEN [ok |-> TRUE, embs |-> <<>>, len |-> 0]
    ELSE IF resp[i] # "vec"
    THEN [ok |-> FALSE, embs |-> <<>>, len |-> Len(texts[i])]
    ELSE LET rest == EmbedLoop(texts, resp, i + 1)
         IN  [ok |-> rest.ok,
              embs |-> IF rest.ok THEN <<Embedding(texts[i])>> \o rest.embs
                       ELSE <<>>,
              len |-> rest.len]

(* An embedding that puts a zero vector where the model's answer is no      *)
(* list.                                                                    *)
embed_textsZeroed(texts, resp) ==
    [ok |-> TRUE,
     embs |-> [i \in 1..Len(texts) |->
                 IF resp[i] = "vec" THEN Embedding(texts[i]) ELSE 0],
     len |-> 0]

(* rag.py:69-78  ok = FALSE is the RuntimeError of line 76, which names the *)
(* length of the text it failed for                                         *)
embed_texts(texts, resp) == EmbedLoop(texts, resp, 1)

Responses(n) == [1..n -> {"vec", "bad"}]

-----------------------------------------------------------------------------
(* The Chroma collection: a mapping from ids to records.                    *)

EmptyStore == [id \in {} |-> id]

(* collection.add of chromadb >= 0.4 (the versions with PersistentClient): *)
(* a record whose id the collection already holds is skipped, with a       *)
(* logged warning; the other records are inserted.                          *)
add(store, ids, documents, embeddings, metadatas) ==
    LET new == {i \in 1..Len(ids) : ids[i] \notin DOMAIN store}
        at(id) == CHOOSE i \in new : ids[i] = id
    IN  [id \in DOMAIN store \cup {ids[i] : i \in new} |->
            IF id \in DOMAIN store THEN store[id]
            ELSE [document |-> documents[at(id)],
                  embedding |-> embeddings[at(id)],
                  metadata |-> metadatas[at(id)]]]

CountFor(store, d) == Cardinality({id \in DOMAIN store : id[1] = d})

Distance(e1, e2) == (e1 - e2) * (e1 - e2)

IsSortedBy(store, emb, res) ==
    \A i \in 1..(Len(res) - 1) :
        Distance(emb, store[res[i]].embedding)
            <= Distance(emb, store[res[i + 1]].embedding)

(* collection.query: the n_results nearest records, nearest first; the     *)
(* order among records at the same distance is the index's own.            *)
query(store, emb, k) ==
    LET n == Min(k, Cardinality(DOMAIN store))
    IN  { res \in [1..n -> DOMAIN store] :
            /\ \A i, j \in 1..n : i # j => res[i] # res[j]
            /\ IsSortedBy(store, emb, res)
            /\ \A id \in DOMAIN store \ {res[i] : i \in 1..n} :
                 \A i \in 1..n :
                    Distance(emb, store[res[i]].embedding)
                        <= Distance(emb, store[id].embedding) }

(* Rows that all take their text from the first result.                    *)
SearchRowsFirstText(store, emb, res) ==
    [i \in 1..Len(res) |->
        [id |-> res[i],
         text |-> store[res[1]].document,
         metadata |-> store[res[i]].metadata,
         distance |-> Distance(emb, store[res[i]].embedding)]]

(* rag.py:287-299  the rows search builds from a query's answer            *)
SearchRows(store, emb, res) ==
    [i \in 1..Len(res) |->
        [id |-> res[i],
         text |-> store[res[i]].document,
         metadata |-> store[res[i]].metadata,
         distance |-> Distance(emb, store[res[i]].embedding)]]

Queries == {<<"a", "a", "a">>}

-----------------------------------------------------------------------------
(* The chat model's reply.  A reply is a sequence of tokens and the        *)
(* payload of its JSON objects:                                             *)
(*   "W"  prose: Sorry          "V"  a JSON value that is no object: [1]    *)
(*   "F"  a fence: ```          "Fj" a tagged fence: ```json                *)
(*   "L"  a lone {              "R"  a lone }                               *)
(*   "O"  a well-formed JSON object, its members given by the payload.      *)
(* A payload maps keys to values; a value is known by its JSON type, and    *)
(* "null" is the one that Python takes for false.                           *)

MaxTextLen == 3

MaxKeys == 2

Tokens == {"W", "V", "F", "Fj", "L", "R", "O"}

CanonKeys == {"cover_letter_markdown", "cv_bullets", "ats_report"}

Synonym(k) ==
    IF k = "cover_letter_markdown" THEN "cover_letter"
    ELSE IF k = "cv_bullets" THEN "bullets"
    ELSE "ats"

Keys == CanonKeys \cup {Synonym(k) : k \in CanonKeys}

Values == {"str", "list", "map", "null", "emptystr"}

EmptyObj == [k \in {} |-> "null"]

Payloads ==
    UNION {[S -> Values] : S \in {S \in SUBSET Keys : Cardinality(S) <= MaxKeys}}

Skeletons == UNION {[1..n -> Tokens] : n \in 1..MaxTextLen}

HasObject(toks) == \E i \in 1..Len(toks) : toks[i] = "O"

Reply(toks, obj) ==
    [toks |-> toks, obj |-> IF HasObject(toks) THEN obj ELSE EmptyObj]

Null == [kind |-> "null"]

(* json.loads of a span of the reply: the span is JSON when it is one       *)
(* object, one other value, or the two lone braces {}.                      *)
Loads(toks, obj) ==
    IF toks = <<"O">> THEN [kind |-> "map", obj |-> obj]
    ELSE IF toks = <<"L", "R">> THEN [kind |-> "map", obj |-> EmptyObj]
    ELSE IF toks = <<"V">> THEN [kind |-> "list"]
    ELSE [kind |-> "fail"]

Opens(tok) == tok \in {"O", "L"}

Closes(tok) == tok \in {"O", "R"}

IsFence(tok) == tok \in {"F", "Fj"}

(* rag.py:139  ```(?:json)?\s*(\{.*?\})\s*``` : the leftmost fence that is  *)
(* followed at once by a {, and from that { the shortest span that ends in *)
(* a } with a fence right after it.  The result is the group's <<from, to>>*)
(* or <<>>.                                                                  *)
FencedSpan(toks) ==
    LET n == Len(toks)
        ends(s) == {e \in s..(n - 1) : Closes(toks[e]) /\ IsFence(toks[e + 1])
                                         /\ (e = s => toks[s] = "O")}
        starts == {s \in 2..n : IsFence(toks[s - 1]) /\ Opens(toks[s])
                                  /\ ends(s) # {}}
    IN  IF starts = {} THEN <<>>
        ELSE LET s == CHOOSE x \in starts : \A y \in starts : x <= y
                 e == CHOOSE x \in ends(s) : \A y \in ends(s) : x <= y
             IN  <<s, e>>

(* rag.py:146  (\{.*\}) : from the first { to the last } of the reply       *)
BraceSpan(toks) ==
    LET n == Len(toks)
        opens == {s \in 1..n : Opens(toks[s])}
    IN  IF opens = {} THEN <<>>
        ELSE LET s == CHOOSE x \in opens : \A y \in opens : x <= y
                 closes == {e \in s..n : Closes(toks[e])
                                           /\ (e = s => toks[s] = "O")}
             IN  IF closes = {} THEN <<>>
                 ELSE <<s, CHOOSE x \in closes : \A y \in closes : y <= x>>

(* rag.py:131-152 *)
_extract_json(text) ==
    LET direct == Loads(text.toks, text.obj)
        m1 == FencedSpan(text.toks)
        fenced == IF m1 = <<>> THEN [kind |-> "fail"]
                  ELSE Loads(SubSeq(text.toks, m1[1], m1[2]), text.obj)
        m2 == BraceSpan(text.toks)
        braced == IF m2 = <<>> THEN [kind |-> "fail"]
                  ELSE Loads(SubSeq(text.toks, m2[1], m2[2]), text.obj)
    IN  IF direct.kind # "fail" THEN direct
        ELSE IF fenced.kind # "fail" THEN fenced
        ELSE IF braced.kind # "fail" THEN braced
        ELSE Null

Truthy(v) == v \in {"str", "list", "map"}

Default(k) ==
    IF k = "cover_letter_markdown" THEN "emptystr"
    ELSE IF k = "cv_bullets" THEN "emptylist"
    ELSE "emptymap"

(* parsed.get(key): None when the key is missing                            *)
Get(obj, k) == IF k \in DOMAIN obj THEN obj[k] ELSE "null"

(* rag.py:358-360  the three parsed.setdefault(k, parsed.get(syn) or dflt) *)
Normalize(obj) ==
    [k \in DOMAIN obj \cup CanonKeys |->
        IF k \in DOMAIN obj THEN obj[k]
        ELSE IF Truthy(Get(obj, Synonym(k))) THEN obj[Synonym(k)]
        ELSE Default(k)]

(* A test that asks for all three keys instead of any of them.             *)
IsDraftAllKeys(parsed) ==
    /\ parsed.kind = "map"
    /\ "cover_letter_markdown" \in DOMAIN parsed.obj
    /\ "cv_bullets" \in DOMAIN parsed.obj
    /\ "ats_report" \in DOMAIN parsed.obj

(* rag.py:354-356 *)
IsDraft(parsed) ==
    /\ parsed.kind = "map"
    /\ \/ "cover_letter_markdown" \in DOMAIN parsed.obj
       \/ "cv_bullets" \in DOMAIN parsed.obj
       \/ "ats_report" \in DOMAIN parsed.obj

(* rag.py:351-364  what generate_application returns for the reply: the     *)
(* dict parsed ("draft") or the dict {"raw": content} ("raw").              *)
Respond(text) ==
    LET parsed == _extract_json(text)
    IN  IF IsDraft(parsed) THEN [kind |-> "draft", obj |-> Normalize(parsed.obj)]
        ELSE [kind |-> "raw", raw |-> text]

-----------------------------------------------------------------------------
(* The on-disk store and the process state                                  *)

Absent == [state |-> "absent", chunks |-> EmptyStore]

(* What an earlier run of the process left in CHROMA_PATH: one ingested     *)
(* document, "short" under doc id a.                                        *)
SeedStore ==
    LET meta == _coerce_meta([k \in {"doc_id"} |-> Lit("a")])
    IN  add(EmptyStore, ChunkIds(meta, Len(Parts["short"])),
            [i \in 1..Len(Parts["short"]) |-> Piece("short", i - 1)],
            embed_texts(Parts["short"],
                        [i \in 1..Len(Parts["short"]) |-> "vec"]).embs,
            [i \in 1..Len(Parts["short"]) |-> meta])

NoHandles == <<NoHandle, NoHandle>>

NoIngest == [text |-> "none", ids |-> <<>>, count |-> 0, times |-> 0]

NoRet == [kind |-> "none"]

NoArg == [kind |-> "none"]

Ok(v) == [kind |-> "ok", val |-> v]

Raised(what, n) == [kind |-> "raised", err |-> [what |-> what, attempt |-> n]]

Ops == {"init", "ingest", "generate"}

(* No function spec is running.                                             *)
FunIdle ==
    /\ inp = NoArg
    /\ out = NoRet
    /\ ci = 0
    /\ fpc = "idle"

Init ==
    /\ ncalls = 0
    /\ client = NoHandle
    /\ collection = NoHandle
    /\ disk \in {[state |-> s, chunks |-> SeedStore] : s \in {"ok", "broken"}}
    /\ nobj = [t \in Threads |-> 0]
    /\ pc = [t \in Threads |-> "idle"]
    /\ op = [t \in Threads |-> "init"]
    /\ reset = [t \in Threads |-> TRUE]
    /\ got = [t \in Threads |-> NoHandles]
    /\ ndel = [t \in Threads |-> 0]
    /\ ntry = [t \in Threads |-> 0]
    /\ arg = [t \in Threads |-> NoArg]
    /\ ret = [t \in Threads |-> NoRet]
    /\ lastIngest = [d \in DocIds |-> NoIngest]
    /\ handed = NoHandles
    /\ late = [t \in Threads |-> FALSE]
    /\ log = {}
    /\ content = Reply(<<"W">>, EmptyObj)
    /\ draft = NoRet
    /\ FunIdle

(* A request thread starts an operation: /ingest and /apply of             *)
(* src/app/main.py, the direct _init_chroma() of src/bulk_ingest.py.       *)
(* ingest_text and search call _init_chroma() with its default,            *)
(* reset_if_broken = True (rag.py:234, 280); a direct caller chooses.      *)
Enter(t, o, r) ==
    /\ pc[t] = "idle"
    /\ ncalls < MaxCalls
    /\ o # "init" => r
    /\ op' = [op EXCEPT ![t] = o]
    /\ reset' = [reset EXCEPT ![t] = r]
    /\ ncalls' = ncalls + 1
    /\ ndel' = [ndel EXCEPT ![t] = 0]
    /\ ntry' = [ntry EXCEPT ![t] = 0]
    /\ arg' = [arg EXCEPT ![t] = NoArg]
    /\ late' = [late EXCEPT ![t] = handed # NoHandles]

(* A return statement of _init_chroma (rag.py:41, 49, 63): the caller gets *)
(* the two globals as they are now.  A direct caller is done; the others   *)
(* go on with their body.                                                   *)
Returned(t, o) ==
    /\ got' = [got EXCEPT ![t] = <<client, collection>>]
    /\ handed' = IF handed = NoHandles THEN <<client, collection>> ELSE handed
    /\ IF o = "init"
       THEN /\ pc' = [pc EXCEPT ![t] = "idle"]
            /\ ret' = [ret EXCEPT ![t] = Ok(<<client, collection>>)]
       ELSE /\ pc' = [pc EXCEPT ![t] = "body"]
            /\ ret' = [ret EXCEPT ![t] = NoRet]

(* An exception leaves the operation.                                       *)
Raise(t, what, n) ==
    /\ pc' = [pc EXCEPT ![t] = "idle"]
    /\ ret' = [ret EXCEPT ![t] = Raised(what, n)]

(* rag.py:37-41  the call and its first statement, the test of the globals *)
InitCheck(t) ==
    /\ \E o \in Ops, r \in BOOLEAN :
        /\ Enter(t, o, r)
        /\ IF client # NoHandle /\ collection # NoHandle
           THEN Returned(t, o)
           ELSE /\ pc' = [pc EXCEPT ![t] = "try_client"]
                /\ got' = [got EXCEPT ![t] = NoHandles]
                /\ ret' = [ret EXCEPT ![t] = NoRet]
                /\ UNCHANGED handed
    /\ UNCHANGED <<client, collection, disk, nobj, lastIngest, log>>
    /\ UNCHANGED genVars

(* chromadb.PersistentClient(path) fails on a store it cannot read, and     *)
(* may already do so, or only at the first collection call.                 *)
ClientFails(d) == IF d.state = "broken" THEN {TRUE, FALSE} ELSE {FALSE}

(* get_or_create_collection fails on a store it cannot read, and may fail  *)
(* when the directory was removed under its client.                         *)
CollFails(d) ==
    IF d.state = "broken" THEN {TRUE}
    ELSE IF d.state = "absent" THEN {TRUE, FALSE}
    ELSE {FALSE}

(* Opening the path creates an empty store where there is none.             *)
Opened(d) == IF d.state = "absent" THEN [d EXCEPT !.state = "ok"] ELSE d

(* rag.py:44-47 and 58-61  _client = chromadb.PersistentClient(...)         *)
MakeClient(t, next) ==
    /\ nobj' = [nobj EXCEPT ![t] = @ + 1]
    /\ client' = <<t, nobj[t] + 1>>
    /\ disk' = Opened(disk)
    /\ pc' = [pc EXCEPT ![t] = next]
    /\ UNCHANGED <<collection, ret>>

(* rag.py:48 and 62  _collection = _client.get_or_create_collection(...)    *)
MakeCollection(t, next) ==
    /\ nobj' = [nobj EXCEPT ![t] = @ + 1]
    /\ collection' = <<t, nobj[t] + 1>>
    /\ disk' = Opened(disk)
    /\ pc' = [pc EXCEPT ![t] = next]
    /\ UNCHANGED <<client, ret>>

(* rag.py:50  the first attempt's exception is caught                       *)
Caught(t) ==
    /\ pc' = [pc EXCEPT ![t] = "except"]
    /\ UNCHANGED <<client, collection, disk, nobj, ret>>

(* A retry whose exception is caught like the first attempt's.             *)
RetryFailedCaught(t, n) ==
    /\ pc' = [pc EXCEPT ![t] = "except"]
    /\ UNCHANGED <<client, collection, disk, nobj, ret>>

(* rag.py:58-63 stand in no try block: the retry's exception propagates     *)
RetryFailed(t, n) ==
    /\ Raise(t, "create", n)
    /\ UNCHANGED <<client, collection, disk, nobj>>

(* rag.py:44-47 *)
TryClient(t) ==
    /\ pc[t] = "try_client"
    /\ ntry' = [ntry EXCEPT ![t] = @ + 1]
    /\ \E fails \in ClientFails(disk) :
        IF fails THEN Caught(t) ELSE MakeClient(t, "try_coll")
    /\ UNCHANGED <<ncalls, op, reset, got, ndel, lastIngest, handed,
                   late, log, arg>>
    /\ UNCHANGED genVars

(* rag.py:48 *)
TryCollection(t) ==
    /\ pc[t] = "try_coll"
    /\ \E fails \in CollFails(disk) :
        IF fails THEN Caught(t) ELSE MakeCollection(t, "try_ret")
    /\ UNCHANGED <<ncalls, op, reset, got, ndel, ntry, lastIngest,
                   handed, late, log, arg>>
    /\ UNCHANGED genVars

(* rag.py:49 *)
TryReturn(t) ==
    /\ pc[t] = "try_ret"
    /\ Returned(t, op[t])
    /\ UNCHANGED <<client, collection, disk, nobj, ncalls, op, reset, ndel,
                   ntry, lastIngest, late, log, arg>>
    /\ UNCHANGED genVars

(* rag.py:55  shutil.rmtree(CHROMA_PATH, ignore_errors=True): the directory *)
(* is gone, or, when it cannot be removed, is left as it is, silently.      *)
Rmtree(t) ==
    /\ ndel' = [ndel EXCEPT ![t] = @ + 1]
    /\ \E removed \in BOOLEAN :
        /\ disk' = IF removed THEN Absent ELSE disk
        /\ lastIngest' = IF removed THEN [d \in DocIds |-> NoIngest]
                         ELSE lastIngest
    /\ pc' = [pc EXCEPT ![t] = "retry_client"]
    /\ UNCHANGED ret

(* An except block that does not look at reset_if_broken.                  *)
ExceptAlwaysResets(t) ==
    /\ pc[t] = "except"
    /\ Rmtree(t)
    /\ UNCHANGED <<client, collection, nobj, ncalls, op, reset, got, ntry,
                   handed, late, log, arg>>
    /\ UNCHANGED genVars

(* rag.py:50-57 *)
Except(t) ==
    /\ pc[t] = "except"
    /\ IF ~reset[t]
       THEN /\ Raise(t, "create", ntry[t])
            /\ UNCHANGED <<disk, ndel, lastIngest>>
       ELSE Rmtree(t)
    /\ UNCHANGED <<client, collection, nobj, ncalls, op, reset, got, ntry,
                   handed, late, log, arg>>
    /\ UNCHANGED genVars

(* rag.py:58-61 *)
RetryClient(t) ==
    /\ pc[t] = "retry_client"
    /\ ntry' = [ntry EXCEPT ![t] = @ + 1]
    /\ \E fails \in ClientFails(disk) :
        IF fails THEN RetryFailed(t, ntry[t] + 1)
        ELSE MakeClient(t, "retry_coll")
    /\ UNCHANGED <<ncalls, op, reset, got, ndel, lastIngest, handed,
                   late, log, arg>>
    /\ UNCHANGED genVars

(* rag.py:62 *)
RetryCollection(t) ==
    /\ pc[t] = "retry_coll"
    /\ \E fails \in CollFails(disk) :
        IF fails THEN RetryFailed(t, ntry[t])
        ELSE MakeCollection(t, "retry_ret")
    /\ UNCHANGED <<ncalls, op, reset, got, ndel, ntry, lastIngest,
                   handed, late, log, arg>>
    /\ UNCHANGED genVars

(* rag.py:63 *)
RetryReturn(t) ==
    /\ pc[t] = "retry_ret"
    /\ Returned(t, op[t])
    /\ UNCHANGED <<client, collection, disk, nobj, ncalls, op, reset, ndel,
                   ntry, lastIngest, late, log, arg>>
    /\ UNCHANGED genVars

-----------------------------------------------------------------------------
(* The bodies of the operations, after _init_chroma has returned.  A        *)
(* collection whose directory is gone or unreadable answers with an error.  *)

Usable(d) == d.state = "ok"

(* The record of a doc id's last ingestion: repeated ingestion of the same *)
(* text keeps the ids and the count of the first.                           *)
Ingested(last, x, ids, count) ==
    IF last.text = x THEN [last EXCEPT !.times = @ + 1]
    ELSE [text |-> x, ids |-> ids, count |-> count, times |-> 1]

(* rag.py:235-241  ingest_text(text, metadata) after its _init_chroma()     *)
ingest_text(t, x, metadata, resp) ==
    LET meta == _coerce_meta(metadata)
        parts == Parts[x]
        n == Len(parts)
        ids == ChunkIds(meta, n)
        embs == embed_texts(parts, resp)
        metas == [i \in 1..n |-> meta]
        docs == [i \in 1..n |-> Piece(x, i - 1)]
        d == DocIdOf(meta)
    IN  IF CoerceRaises(metadata)
        THEN Raise(t, "coerce", 0) /\ UNCHANGED <<disk, lastIngest>>
        ELSE IF ~embs.ok
        THEN Raise(t, "embed", embs.len) /\ UNCHANGED <<disk, lastIngest>>
        ELSE IF ~Usable(disk)
        THEN Raise(t, "store", 0) /\ UNCHANGED <<disk, lastIngest>>
        ELSE LET store == add(disk.chunks, ids, docs, embs.embs, metas)
             IN  /\ disk' = [disk EXCEPT !.chunks = store]
                 /\ lastIngest' =
                      [lastIngest EXCEPT
                         ![d] = Ingested(@, x, ids, CountFor(store, d))]
                 /\ pc' = [pc EXCEPT ![t] = "idle"]
                 /\ ret' = [ret EXCEPT ![t] = Ok([added |-> n])]

IngestBody(t) ==
    /\ pc[t] = "body"
    /\ op[t] = "ingest"
    /\ \E x \in TextNames, m \in MetaInputs :
        \E resp \in Responses(Len(Parts[x])) :
            /\ arg' = [arg EXCEPT ![t] = [text |-> x, metadata |-> m]]
            /\ ingest_text(t, x, m, resp)
    /\ UNCHANGED <<client, collection, nobj, ncalls, op, reset, got, ndel,
                   ntry, handed, late, log>>
    /\ UNCHANGED genVars

(* rag.py:281-299  search(query, k) after its _init_chroma(): the outcome   *)
(* (a return value or an exception) for one answer res of the index.        *)
search(q, k, resp, res) ==
    LET embs == embed_texts(<<q>>, resp)
    IN  IF ~embs.ok THEN Raised("embed", embs.len)
        ELSE IF ~Usable(disk) THEN Raised("store", 0)
        ELSE Ok(SearchRows(disk.chunks, embs.embs[1], res))

(* The answers collection.query may give to search(q, k).                   *)
Answers(q, k, resp) ==
    LET embs == embed_texts(<<q>>, resp)
    IN  IF embs.ok /\ Usable(disk) THEN query(disk.chunks, embs.embs[1], k)
        ELSE {<<>>}

(* rag.py:337-364  generate_application(job_post) after search's            *)
(* _init_chroma(): search's exception propagates; else the chat model's     *)
(* reply is handled.                                                        *)
generate_application(job_post, resp, res, reply) ==
    LET top == search(job_post, DefaultK, resp, res)
    IN  IF top.kind = "raised" THEN top ELSE Ok(Respond(reply))

(* The replies the chat model gives in Spec; SpecGen covers all of them.    *)
SampleReplies ==
    { Reply(<<"W">>, EmptyObj),
      Reply(<<"O">>, [k \in {"cv_bullets"} |-> "list"]),
      Reply(<<"Fj", "O", "F">>, [k \in {"bullets"} |-> "list"]) }

(* A generate that clears the collection once it has its context.          *)
GenerateBodyClears(t) ==
    /\ pc[t] = "body"
    /\ op[t] = "generate"
    /\ \E q \in Queries, resp \in Responses(1), reply \in SampleReplies :
        \E res \in Answers(q, DefaultK, resp) :
            /\ ret' = [ret EXCEPT ![t] =
                         generate_application(q, resp, res, reply)]
    /\ pc' = [pc EXCEPT ![t] = "idle"]
    /\ disk' = [disk EXCEPT !.chunks = EmptyStore]
    /\ UNCHANGED <<client, collection, nobj, ncalls, op, reset, got,
                   ndel, ntry, lastIngest, handed, late, log, arg>>
    /\ UNCHANGED genVars

(* rag.py:336-364 *)
GenerateBody(t) ==
    /\ pc[t] = "body"
    /\ op[t] = "generate"
    /\ \E q \in Queries, resp \in Responses(1), reply \in SampleReplies :
        \E res \in Answers(q, DefaultK, resp) :
            /\ ret' = [ret EXCEPT ![t] =
                         generate_application(q, resp, res, reply)]
    /\ pc' = [pc EXCEPT ![t] = "idle"]
    /\ UNCHANGED <<client, collection, disk, nobj, ncalls, op, reset, got,
                   ndel, ntry, lastIngest, handed, late, log, arg>>
    /\ UNCHANGED genVars

Step(t) ==
    \/ InitCheck(t)
    \/ TryClient(t)
    \/ TryCollection(t)
    \/ TryReturn(t)
    \/ Except(t)
    \/ RetryClient(t)
    \/ RetryCollection(t)
    \/ RetryReturn(t)
    \/ IngestBody(t)
    \/ GenerateBody(t)

Next == \E t \in Threads : Step(t)

Spec == Init /\ [][Next]_vars

-----------------------------------------------------------------------------
(* SpecGen: generate_application's handling of the reply, for every reply   *)
(* of at most MaxTextLen tokens whose objects have at most MaxKeys members. *)

InitGen ==
    /\ client = NoHandle
    /\ collection = NoHandle
    /\ disk = Absent
    /\ nobj = [t \in Threads |-> 0]
    /\ ncalls = 0
    /\ pc = [t \in Threads |-> "idle"]
    /\ op = [t \in Threads |-> "init"]
    /\ reset = [t \in Threads |-> TRUE]
    /\ got = [t \in Threads |-> NoHandles]
    /\ ndel = [t \in Threads |-> 0]
    /\ ntry = [t \in Threads |-> 0]
    /\ arg = [t \in Threads |-> NoArg]
    /\ ret = [t \in Threads |-> NoRet]
    /\ lastIngest = [d \in DocIds |-> NoIngest]
    /\ handed = NoHandles
    /\ late = [t \in Threads |-> FALSE]
    /\ log = {}
    /\ \E toks \in Skeletons, obj \in Payloads : content = Reply(toks, obj)
    /\ draft = NoRet
    /\ FunIdle

HandleReply ==
    /\ draft = NoRet
    /\ draft' = Respond(content)
    /\ UNCHANGED <<content, funVars>>
    /\ UNCHANGED storeVars

NextGen == HandleReply

SpecGen == InitGen /\ [][NextGen]_vars

-----------------------------------------------------------------------------
(* SpecChunk: _chunk run statement by statement, for every text of at most  *)
(* MaxChunkText characters over a letter and a whitespace, every size up to *)
(* MaxSize and every overlap up to MaxSize + 1 (sizes and overlaps below 1  *)
(* included), and for the text of 2000 letters with the defaults.           *)

MaxChunkText == 4

MaxSize == 3

(* The store, its callers and the reply handling at rest.                   *)
StoreIdle ==
    /\ ncalls = 0
    /\ client = NoHandle
    /\ collection = NoHandle
    /\ disk = Absent
    /\ nobj = [t \in Threads |-> 0]
    /\ pc = [t \in Threads |-> "idle"]
    /\ op = [t \in Threads |-> "init"]
    /\ reset = [t \in Threads |-> TRUE]
    /\ got = [t \in Threads |-> NoHandles]
    /\ ndel = [t \in Threads |-> 0]
    /\ ntry = [t \in Threads |-> 0]
    /\ arg = [t \in Threads |-> NoArg]
    /\ ret = [t \in Threads |-> NoRet]
    /\ lastIngest = [d \in DocIds |-> NoIngest]
    /\ handed = NoHandles
    /\ late = [t \in Threads |-> FALSE]
    /\ log = {}
    /\ content = Reply(<<"W">>, EmptyObj)
    /\ draft = NoRet

ChunkTexts == UNION {[1..n -> {"a", " "}] : n \in 0..MaxChunkText}

LongText == [i \in 1..2000 |-> "a"]

ChunkInputs ==
    {[text |-> x, chunk |-> c, overlap |-> o] :
        x \in ChunkTexts, c \in (0 - 1)..MaxSize, o \in (0 - 1)..(MaxSize + 1)}
    \cup {[text |-> LongText, chunk |-> ChunkSize, overlap |-> Overlap]}

InitChunk ==
    /\ StoreIdle
    /\ inp \in ChunkInputs
    /\ out = NoRet
    /\ ci = 0
    /\ fpc = "start"

(* rag.py:103-105  out, i = [], 0; step; n                                  *)
ChunkStart ==
    /\ fpc = "start"
    /\ out' = <<>>
    /\ ci' = 0
    /\ fpc' = "loop"
    /\ UNCHANGED <<inp, content, draft>>
    /\ UNCHANGED storeVars

(* rag.py:106-112  one test of the while condition and, when it holds, one *)
(* run of the loop body; the emitted piece is kept with its offset.         *)
ChunkIter ==
    /\ fpc = "loop"
    /\ LET piece == PySlice(inp.text, ci, ci + inp.chunk)
       IN  IF ci >= Len(inp.text) \/ IsBlank(piece)
           THEN /\ fpc' = "done"
                /\ UNCHANGED <<out, ci>>
           ELSE /\ out' = Append(out, [off |-> ci, piece |-> piece])
                /\ ci' = ci + Stride(inp.chunk, inp.overlap)
                /\ fpc' = "loop"
    /\ UNCHANGED <<inp, content, draft>>
    /\ UNCHANGED storeVars

NextChunk == ChunkStart \/ ChunkIter

SpecChunk == InitChunk /\ [][NextChunk]_vars

(* The loop is run to its end: nothing else runs in the call.               *)
SpecChunkLive == SpecChunk /\ WF_vars(NextChunk)

-----------------------------------------------------------------------------
(* SpecCoerce: _coerce_meta for every mapping over two keys whose values    *)
(* are scalars, None, dates, other objects, and lists and dicts of these    *)
(* nested up to MaxDepth; a list or dict here is empty or has one member.   *)

MaxDepth == 2

LeafValues ==
    { Lit("a"),
      [ty |-> "int", v |-> <<"1">>],
      [ty |-> "none", v |-> <<>>],
      [ty |-> "date", v |-> <<"d">>],
      [ty |-> "object", v |-> <<"o">>] }

RECURSIVE MetaValues(_)
MetaValues(depth) ==
    IF depth = 0 THEN LeafValues
    ELSE LeafValues \cup
         {[ty |-> c, v |-> items] :
            c \in ContainerTypes,
            items \in {<<>>} \cup {<<x>> : x \in MetaValues(depth - 1)}}

CoerceInputs ==
    UNION {[S -> MetaValues(MaxDepth)] : S \in SUBSET {"doc_id", "tags"}}

InitCoerce ==
    /\ StoreIdle
    /\ inp \in CoerceInputs
    /\ out = NoRet
    /\ ci = 0
    /\ fpc = "start"

(* rag.py:115-128 *)
CoerceCall ==
    /\ fpc = "start"
    /\ out' = coerce(inp)
    /\ fpc' = "done"
    /\ UNCHANGED <<inp, ci, content, draft>>
    /\ UNCHANGED storeVars

NextCoerce == CoerceCall

SpecCoerce == InitCoerce /\ [][NextCoerce]_vars

-----------------------------------------------------------------------------
(* SpecSearch: search(query, k) on an initialised store, for every store of *)
(* at most MaxStore chunks, every k up to MaxK, and every order the index   *)
(* may give to chunks at the same distance.                                 *)

MaxStore == 3

MaxK == 3

SearchIds == {<<<<"a">>, i>> : i \in 0..(MaxStore - 1)}

(* The stores: each chunk's text is its own, its vector one of two.         *)
SearchStores ==
    UNION {[S -> {1, 3}] : S \in SUBSET SearchIds}

StoreOf(embs) ==
    [id \in DOMAIN embs |->
        [document |-> Piece("long", id[2]),
         embedding |-> embs[id],
         metadata |-> _coerce_meta([k \in {"doc_id"} |-> Lit("a")])]]

SearchInputs ==
    {[q |-> q, k |-> k, resp |-> resp] :
        q \in {<<"a">>, <<"a", "a", "a">>}, k \in 1..MaxK,
        resp \in Responses(1)}

InitSearch ==
    /\ ncalls = 0
    /\ client = <<"t1", 1>>
    /\ collection = <<"t1", 2>>
    /\ \E embs \in SearchStores :
          disk = [state |-> "ok", chunks |-> StoreOf(embs)]
    /\ nobj = [t \in Threads |-> IF t = "t1" THEN 2 ELSE 0]
    /\ pc = [t \in Threads |-> "idle"]
    /\ op = [t \in Threads |-> "init"]
    /\ reset = [t \in Threads |-> TRUE]
    /\ got = [t \in Threads |-> NoHandles]
    /\ ndel = [t \in Threads |-> 0]
    /\ ntry = [t \in Threads |-> 0]
    /\ arg = [t \in Threads |-> NoArg]
    /\ ret = [t \in Threads |-> NoRet]
    /\ lastIngest = [d \in DocIds |-> NoIngest]
    /\ handed = <<client, collection>>
    /\ late = [t \in Threads |-> FALSE]
    /\ log = {}
    /\ content = Reply(<<"W">>, EmptyObj)
    /\ draft = NoRet
    /\ inp \in SearchInputs
    /\ out = NoRet
    /\ ci = 0
    /\ fpc = "start"

(* rag.py:279-299  search(query, k): _init_chroma() finds the globals set   *)
SearchCall ==
    /\ fpc = "start"
    /\ client # NoHandle /\ collection # NoHandle
    /\ \E res \in Answers(inp.q, inp.k, inp.resp) :
          out' = search(inp.q, inp.k, inp.resp, res)
    /\ fpc' = "done"
    /\ UNCHANGED <<inp, ci, content, draft>>
    /\ UNCHANGED storeVars

NextSearch == SearchCall

SpecSearch == InitSearch /\ [][NextSearch]_vars

-----------------------------------------------------------------------------
(* SpecBulk: do_ingest of src/bulk_ingest.py, one process with one thread,  *)
(* over every list of at most MaxFiles files; each file goes through        *)
(* ingest_file, ingest_text and, statement by statement, _init_chroma.      *)

MaxFiles == 2

Main == "t1"

FileLists == UNION {[1..n -> FileKinds] : n \in 0..MaxFiles}

InitBulk ==
    /\ ncalls = 0
    /\ client = NoHandle
    /\ collection = NoHandle
    /\ disk \in {[state |-> st, chunks |-> SeedStore] : st \in {"ok", "broken"}}
    /\ nobj = [t \in Threads |-> 0]
    /\ pc = [t \in Threads |-> "idle"]
    /\ op = [t \in Threads |-> "init"]
    /\ reset = [t \in Threads |-> TRUE]
    /\ got = [t \in Threads |-> NoHandles]
    /\ ndel = [t \in Threads |-> 0]
    /\ ntry = [t \in Threads |-> 0]
    /\ arg = [t \in Threads |-> NoArg]
    /\ ret = [t \in Threads |-> NoRet]
    /\ lastIngest = [d \in DocIds |-> NoIngest]
    /\ handed = NoHandles
    /\ late = [t \in Threads |-> FALSE]
    /\ log = {}
    /\ content = Reply(<<"W">>, EmptyObj)
    /\ draft = NoRet
    /\ inp \in FileLists
    /\ out = <<>>
    /\ ci = 0
    /\ fpc = "start"

(* bulk_ingest.py:77-94  no files: return; else the question, whose answer  *)
(* starts the loop or cancels.                                              *)
BulkConfirm ==
    /\ fpc = "start"
    /\ IF inp = <<>>
       THEN fpc' = "done" /\ UNCHANGED ci
       ELSE \E confirm \in {"y", "n"} :
               IF confirm = "y" THEN fpc' = "loop" /\ ci' = 1
               ELSE fpc' = "done" /\ UNCHANGED ci
    /\ UNCHANGED <<inp, out, content, draft>>
    /\ UNCHANGED storeVars

(* rag.py:84-99 and 250-266  what ingest_file raises before it calls        *)
(* ingest_text, or "none": _validate_file_path's FileNotFoundError, the     *)
(* exception of p.read_text in the Markdown branch as it is, the ValueError *)
(* that wraps any exception of _detect_and_read_file.                       *)
FileError(f) ==
    IF f.at = "missing" THEN "FileNotFoundError"
    ELSE IF f.at = "ok" THEN "none"
    ELSE IF f.ext = "md"
    THEN IF f.at = "denied" THEN "PermissionError" ELSE "UnicodeDecodeError"
    ELSE "ValueError"

(* Python's class tree: UnicodeDecodeError is a ValueError.                 *)
IsValueError(what) == what \in {"ValueError", "UnicodeDecodeError"}

(* bulk_ingest.py:96-99 with rag.py:244-273 and 234  the loop takes the     *)
(* next file and calls ingest_file, which raises or calls ingest_text,      *)
(* whose first statement is _init_chroma() with its test of the globals.    *)
BulkFile ==
    /\ fpc = "loop"
    /\ pc[Main] = "idle"
    /\ fpc' = "file"
    /\ arg' = [arg EXCEPT ![Main] = NoArg]
    /\ IF FileError(inp[ci]) # "none"
       THEN /\ Raise(Main, FileError(inp[ci]), 0)
            /\ UNCHANGED <<op, reset, got, ndel, ntry, late, handed>>
       ELSE /\ op' = [op EXCEPT ![Main] = "ingest"]
            /\ reset' = [reset EXCEPT ![Main] = TRUE]
            /\ ndel' = [ndel EXCEPT ![Main] = 0]
            /\ ntry' = [ntry EXCEPT ![Main] = 0]
            /\ late' = [late EXCEPT ![Main] = handed # NoHandles]
            /\ IF client # NoHandle /\ collection # NoHandle
               THEN Returned(Main, "ingest")
               ELSE /\ pc' = [pc EXCEPT ![Main] = "try_client"]
                    /\ got' = [got EXCEPT ![Main] = NoHandles]
                    /\ ret' = [ret EXCEPT ![Main] = NoRet]
                    /\ UNCHANGED handed
    /\ UNCHANGED <<client, collection, disk, nobj, ncalls, lastIngest, log>>
    /\ UNCHANGED <<inp, out, ci, content, draft>>

(* rag.py:235-241  ingest_text's body, for the file's text and metadata     *)
BulkBody ==
    /\ fpc = "file"
    /\ pc[Main] = "body"
    /\ \E resp \in Responses(Len(Parts[inp[ci].text])) :
          /\ arg' = [arg EXCEPT ![Main] = [text |-> inp[ci].text,
                                           metadata |-> FileMeta(inp[ci])]]
          /\ ingest_text(Main, inp[ci].text, FileMeta(inp[ci]), resp)
    /\ UNCHANGED <<client, collection, nobj, ncalls, op, reset, got, ndel,
                   ntry, handed, late, log>>
    /\ UNCHANGED genVars

(* A loop in which the file's exception is not caught: it ends do_ingest.   *)
BulkReportOrAbort ==
    /\ fpc = "file"
    /\ pc[Main] = "idle"
    /\ IF ret[Main].kind = "raised"
       THEN fpc' = "done" /\ UNCHANGED <<out, ci>>
       ELSE /\ out' = Append(out, [file |-> ci, result |-> ret[Main]])
            /\ ci' = ci + 1
            /\ fpc' = IF ci + 1 > Len(inp) THEN "done" ELSE "loop"
    /\ UNCHANGED <<inp, content, draft>>
    /\ UNCHANGED storeVars

(* bulk_ingest.py:98-104  ingest_file has returned or raised: the result or *)
(* the exception is printed for the file, and the loop goes on.             *)
BulkReport ==
    /\ fpc = "file"
    /\ pc[Main] = "idle"
    /\ out' = Append(out, [file |-> ci, result |-> ret[Main]])
    /\ ci' = ci + 1
    /\ fpc' = IF ci + 1 > Len(inp) THEN "done" ELSE "loop"
    /\ UNCHANGED <<inp, content, draft>>
    /\ UNCHANGED storeVars

NextBulk ==
    \/ BulkConfirm
    \/ BulkFile
    \/ TryClient(Main)
    \/ TryCollection(Main)
    \/ TryReturn(Main)
    \/ Except(Main)
    \/ RetryClient(Main)
    \/ RetryCollection(Main)
    \/ RetryReturn(Main)
    \/ BulkBody
    \/ BulkReport

SpecBulk == InitBulk /\ [][NextBulk]_vars

-----------------------------------------------------------------------------
(* Properties of _init_chroma                                               *)

RetryPcs == {"retry_client", "retry_coll", "retry_ret"}

CreatePcs == {"try_client", "try_coll", "try_ret", "except"} \cup RetryPcs

(* C1: with auto-recovery enabled, one call of _init_chroma discards the    *)
(* on-disk store at most once and makes at most two creation attempts; the *)
(* discard happens exactly when the first attempt has failed and stands     *)
(* before the one retry; an error reaches the caller only from the second   *)
(* attempt, after one discard, and ends the call.                           *)
C1_OneRecovery ==
    \A t \in Threads :
        reset[t] =>
            /\ ndel[t] <= 1
            /\ ntry[t] <= 2
            /\ (ndel[t] = 1) <=> (pc[t] = "retry_client" \/ ntry[t] = 2)
            /\ pc[t] = "except" => (ndel[t] = 0 /\ ntry[t] = 1)
            /\ (ret[t].kind = "raised" /\ ret[t].err.what = "create") =>
                   /\ ret[t].err.attempt = 2
                   /\ ndel[t] = 1
                   /\ ntry[t] = 2
                   /\ pc[t] = "idle"

C1_Witness ==
    \E t \in Threads :
        /\ reset[t]
        /\ ret[t] = Raised("create", 2)
        /\ ndel[t] = 1
        /\ ntry[t] = 2

(* C2: while the store is not initialized, at most one caller is inside the *)
(* create-or-recover sequence, all callers that have handles have the same  *)
(* ones, and the on-disk store is not deleted once a caller has obtained a  *)
(* handle.                                                                  *)
C2_SafeFirstUse ==
    /\ [](\A t1, t2 \in Threads :
            (t1 # t2 /\ pc[t1] \in CreatePcs) => pc[t2] \notin CreatePcs)
    /\ [](\A t1, t2 \in Threads :
            (got[t1] # NoHandles /\ got[t2] # NoHandles) => got[t1] = got[t2])
    /\ [][handed # NoHandles => \A t \in Threads : ndel'[t] <= ndel[t]]_vars

(* C8: once a call of _init_chroma has returned, a call that starts later   *)
(* gets the handles the first one got, and constructs no client, creates    *)
(* no collection and deletes nothing.                                       *)
C8_Memoized ==
    \A t \in Threads :
        late[t] =>
            /\ pc[t] \notin CreatePcs
            /\ ntry[t] = 0
            /\ ndel[t] = 0
            /\ got[t] = handed

(* C9: a call with reset_if_broken = False deletes nothing and makes one    *)
(* attempt only; when that attempt fails its error is the one the caller    *)
(* gets.                                                                    *)
C9_NoRecoveryWhenDisabled ==
    \A t \in Threads :
        ~reset[t] =>
            /\ ndel[t] = 0
            /\ ntry[t] <= 1
            /\ pc[t] \notin RetryPcs
            /\ ret[t].kind = "raised" => ret[t] = Raised("create", 1)

C9_Witness ==
    \E t \in Threads :
        /\ ~reset[t]
        /\ pc[t] = "idle"
        /\ ret[t] = Raised("create", 1)
        /\ ndel[t] = 0

(* C10: a call of _init_chroma that has discarded the on-disk store and     *)
(* then returns leaves a log record, or returns something a normal return   *)
(* does not: more than the two handles.                                     *)
C10_RecoveryObservable ==
    \A t \in Threads :
        (ndel[t] >= 1 /\ got[t] # NoHandles) =>
            \/ log # {}
            \/ Len(got[t]) > 2

-----------------------------------------------------------------------------
(* Properties of ingest_text                                                *)

(* The outcome is the RuntimeError of embed_texts.                          *)
EmbedFailed(r) == r.kind = "raised" /\ r.err.what = "embed"

(* The step in which caller t's ingest_text runs its body.                  *)
IngestStep(t) == pc[t] = "body" /\ op[t] = "ingest" /\ pc'[t] = "idle"

(* C3: an ingestion that repeats the last one of its doc id (same text),    *)
(* and whose embeddings the model delivers, succeeds, produces the ids of   *)
(* that one, and leaves as many chunks under the doc id as the first        *)
(* ingestion of the text did.                                               *)
C3_ReingestIdempotent ==
    [][\A t \in Threads :
         IngestStep(t) =>
             LET meta == _coerce_meta(arg'[t].metadata)
                 n == Len(Parts[arg'[t].text])
                 last == lastIngest[DocIdOf(meta)]
             IN  (last.text = arg'[t].text /\ ~EmbedFailed(ret'[t])) =>
                     /\ ret'[t] = Ok([added |-> n])
                     /\ ChunkIds(meta, n) = last.ids
                     /\ CountFor(disk'.chunks, DocIdOf(meta)) = last.count
                     /\ lastIngest'[DocIdOf(meta)].times = last.times + 1]_vars

C3_Witness ==
    \E d \in DocIds, t \in Threads :
        /\ lastIngest[d].times >= 3
        /\ pc[t] = "idle"
        /\ arg[t] # NoArg
        /\ arg[t].text = lastIngest[d].text
        /\ ret[t].kind = "ok"
        /\ CountFor(disk.chunks, d) = lastIngest[d].count

(* C4: after an ingestion has succeeded, every id it produced holds the     *)
(* text, the embedding and the metadata of the chunk it was produced for.   *)
C4_Overwrite ==
    [][\A t \in Threads :
         (IngestStep(t) /\ ret'[t].kind = "ok") =>
             LET meta == _coerce_meta(arg'[t].metadata)
                 x == arg'[t].text
                 ids == ChunkIds(meta, Len(Parts[x]))
             IN  \A i \in 1..Len(ids) :
                     /\ ids[i] \in DOMAIN disk'.chunks
                     /\ disk'.chunks[ids[i]] =
                          [document |-> Piece(x, i - 1),
                           embedding |-> Embedding(Parts[x][i]),
                           metadata |-> meta]]_vars

-----------------------------------------------------------------------------
(* Properties of generate_application                                       *)

(* A step of caller t inside an operation that is a generate.               *)
GenerateStep(t) == pc'[t] # pc[t] /\ op'[t] = "generate"

(* C5 as stated: no step of a generate call changes the chunks held by the  *)
(* store or the contents of its directory.                                  *)
C5_ReadOnly ==
    [][\A t \in Threads : GenerateStep(t) => disk' = disk]_vars

(* C5: a generate call changes the store only inside the _init_chroma of    *)
(* its search: opening the path creates an empty store where there is none, *)
(* and the except block discards the store when creation has failed.  The   *)
(* body after _init_chroma changes nothing, whatever its outcome, and a     *)
(* call that finds the store initialized changes nothing at all.            *)
C5_ReadOnlyButInit ==
    [][\A t \in Threads :
         GenerateStep(t) =>
             \/ disk' = disk
             \/ /\ pc[t] = "except"
                /\ reset[t]
                /\ disk' = Absent
             \/ /\ pc[t] \in {"try_client", "try_coll",
                              "retry_client", "retry_coll"}
                /\ disk.state = "absent"
                /\ disk' = Opened(disk)
                /\ disk'.chunks = disk.chunks]_vars

C5_Witness ==
    \E t \in Threads :
        /\ op[t] = "generate"
        /\ pc[t] = "idle"
        /\ ret[t].kind = "ok"
        /\ ret[t].val.kind = "draft"
        /\ disk.chunks # EmptyStore

(* C6: for every reply of the chat model the result is the raw fallback    *)
(* with the reply unchanged exactly when _extract_json gives no mapping or  *)
(* a mapping with none of the three canonical keys; otherwise it is the     *)
(* mapping, with the canonical keys all present and its own members kept.   *)
C6_RawFallback ==
    draft # NoRet =>
        LET parsed == _extract_json(content)
            nothing == \/ parsed.kind # "map"
                       \/ DOMAIN parsed.obj \cap CanonKeys = {}
        IN  /\ draft.kind \in {"raw", "draft"}
            /\ nothing <=> draft.kind = "raw"
            /\ draft.kind = "raw" => draft.raw = content
            /\ draft.kind = "draft" =>
                   /\ CanonKeys \subseteq DOMAIN draft.obj
                   /\ \A k \in DOMAIN parsed.obj : draft.obj[k] = parsed.obj[k]

C6_Witness ==
    /\ draft # NoRet
    /\ draft.kind = "raw"
    /\ draft.raw = content
    /\ _extract_json(content).kind = "map"
    /\ DOMAIN _extract_json(content).obj # {}

(* C7: a result is the raw fallback, or a draft whose three canonical keys  *)
(* are present with cover_letter_markdown a string, cv_bullets a sequence   *)
(* and ats_report a mapping.                                                *)
C7_DraftShape ==
    draft # NoRet =>
        \/ draft.kind = "raw"
        \/ /\ draft.kind = "draft"
           /\ CanonKeys \subseteq DOMAIN draft.obj
           /\ draft.obj["cover_letter_markdown"] \in {"str", "emptystr"}
           /\ draft.obj["cv_bullets"] \in {"list", "emptylist"}
           /\ draft.obj["ats_report"] \in {"map", "emptymap"}

-----------------------------------------------------------------------------
(* Properties of _chunk                                                     *)

(* The characters of the text that an emitted chunk contains.               *)
Covered == UNION {(out[j].off + 1)..(out[j].off + Len(out[j].piece)) :
                     j \in 1..Len(out)}

(* The characters before the trailing whitespace tail.                      *)
Body(text) == {p \in 1..Len(text) : \E q \in p..Len(text) : text[q] # " "}

(* The chunks' unique spans, one after the other: of every chunk but the    *)
(* last, what lies before the next chunk's offset.                          *)
RECURSIVE UniqueSpans(_, _)
UniqueSpans(chunks, j) ==
    IF j > Len(chunks) THEN <<>>
    ELSE IF j = Len(chunks) THEN chunks[j].piece
    ELSE SubSeq(chunks[j].piece, 1,
                Min(Len(chunks[j].piece), chunks[j + 1].off - chunks[j].off))
         \o UniqueSpans(chunks, j + 1)

(* C11: for 0 <= overlap < size, when _chunk has returned, what remained    *)
(* from its last offset is empty or all whitespace, every character before *)
(* the trailing whitespace tail is in an emitted chunk, and the unique      *)
(* spans of the chunks give the text up to that tail.                       *)
C11_StopsAtTailOnly ==
    (fpc = "done" /\ 0 <= inp.overlap /\ inp.overlap < inp.chunk) =>
        /\ IsBlank(PySlice(inp.text, ci, Len(inp.text)))
        /\ Body(inp.text) \subseteq Covered
        /\ \A p \in Body(inp.text) :
               /\ p <= Len(UniqueSpans(out, 1))
               /\ UniqueSpans(out, 1)[p] = inp.text[p]

(* C12 as stated: 2000 letters with size 900 and overlap 150 give three     *)
(* chunks of 900, 900 and 200 characters at the offsets 0, 750 and 1500.    *)
C12_Example200 ==
    (fpc = "done" /\ inp.text = LongText /\ inp.chunk = 900
                  /\ inp.overlap = 150) =>
        /\ Len(out) = 3
        /\ <<out[1].off, out[2].off, out[3].off>> = <<0, 750, 1500>>
        /\ <<Len(out[1].piece), Len(out[2].piece), Len(out[3].piece)>>
              = <<900, 900, 200>>

(* C12: 2000 letters with size 900 and overlap 150 give three chunks of     *)
(* 900, 900 and 500 characters at the offsets 0, 750 and 1500: the last     *)
(* chunk runs from 1500 to the end of the text.                             *)
C12_Example500 ==
    (fpc = "done" /\ inp.text = LongText /\ inp.chunk = 900
                  /\ inp.overlap = 150) =>
        /\ Len(out) = 3
        /\ <<out[1].off, out[2].off, out[3].off>> = <<0, 750, 1500>>
        /\ <<Len(out[1].piece), Len(out[2].piece), Len(out[3].piece)>>
              = <<900, 900, 500>>
        /\ [j \in 1..3 |-> out[j].piece] = _chunk(LongText, 900, 150)
        /\ \A j \in 1..3 :
               out[j].piece = SubSeq(LongText, out[j].off + 1,
                                     out[j].off + Len(out[j].piece))

C12_Witness ==
    /\ fpc = "done"
    /\ inp = [text |-> LongText, chunk |-> 900, overlap |-> 150]
    /\ Len(out) = 3
    /\ ci = 2250

(* C13: for every text, size and overlap the stride is at least 1, every    *)
(* iteration that emits moves the offset forward, no more chunks are        *)
(* emitted than the text has characters, the result is what _chunk gives,   *)
(* and the call returns.                                                    *)
C13_Terminates ==
    /\ [](Stride(inp.chunk, inp.overlap) >= 1)
    /\ [][fpc = "loop" /\ fpc' = "loop" => ci' > ci]_vars
    /\ [](fpc \in {"loop", "done"} => Len(out) <= Len(inp.text))
    /\ [](fpc = "done" =>
            [j \in 1..Len(out) |-> out[j].piece]
                = _chunk(inp.text, inp.chunk, inp.overlap))
    /\ <>(fpc = "done")

C13_Witness ==
    /\ fpc = "done"
    /\ inp.overlap >= inp.chunk
    /\ inp.chunk >= 1
    /\ Len(out) = Len(inp.text)
    /\ Len(out) >= 2

-----------------------------------------------------------------------------
(* Properties of _coerce_meta                                               *)

(* C14: for every mapping _coerce_meta returns, without raising, a mapping  *)
(* with the same keys whose values are all str, int, float, bool or None,   *)
(* and a value that was one of these already is returned as it was.         *)
C14_CoerceTotal ==
    fpc = "done" =>
        /\ out.kind = "ok"
        /\ DOMAIN out.val = DOMAIN inp
        /\ \A k \in DOMAIN inp :
               /\ out.val[k].ty \in ScalarTypes
               /\ inp[k].ty \in ScalarTypes => out.val[k] = inp[k]

-----------------------------------------------------------------------------
(* Properties of _extract_json                                              *)

(* How many braces are open after the tokens s..e: a lone { opens one, a    *)
(* lone } closes one, a well-formed object leaves the count as it is.       *)
Depth(toks, s, e) ==
    Cardinality({i \in s..e : toks[i] = "L"})
        - Cardinality({i \in s..e : toks[i] = "R"})

(* The first balanced {...} span of the reply: from the first { to the      *)
(* first } at which every brace opened since is closed.  <<from, to>> or    *)
(* <<>>.                                                                    *)
FirstBalancedSpan(toks) ==
    LET n == Len(toks)
        opens == {s \in 1..n : Opens(toks[s])}
    IN  IF opens = {} THEN <<>>
        ELSE LET s == CHOOSE x \in opens : \A y \in opens : x <= y
                 closes == {e \in s..n : Closes(toks[e])
                                           /\ Depth(toks, s, e) = 0}
             IN  IF closes = {} THEN <<>>
                 ELSE <<s, CHOOSE x \in closes : \A y \in closes : x <= y>>

(* The three strategies in their order, the third on the first balanced    *)
(* span.                                                                    *)
ExtractFirstBalanced(text) ==
    LET direct == Loads(text.toks, text.obj)
        m1 == FencedSpan(text.toks)
        fenced == IF m1 = <<>> THEN [kind |-> "fail"]
                  ELSE Loads(SubSeq(text.toks, m1[1], m1[2]), text.obj)
        m3 == FirstBalancedSpan(text.toks)
        balanced == IF m3 = <<>> THEN [kind |-> "fail"]
                    ELSE Loads(SubSeq(text.toks, m3[1], m3[2]), text.obj)
    IN  IF direct.kind # "fail" THEN direct
        ELSE IF fenced.kind # "fail" THEN fenced
        ELSE IF balanced.kind # "fail" THEN balanced
        ELSE Null

(* C15: _extract_json gives the value of the first strategy that parses,   *)
(* of (a) the reply itself, (b) the object inside a fenced block, (c) the   *)
(* first balanced {...} span of the reply, each span parsed as it stands,   *)
(* and null exactly when all three fail.                                    *)
C15_FirstStrategyWins ==
    draft # NoRet => _extract_json(content) = ExtractFirstBalanced(content)

-----------------------------------------------------------------------------
(* Properties of search                                                     *)

(* C16: when the query's embedding is delivered, search on a store of n     *)
(* chunks returns min(k, n) rows, nearest first, of distinct stored chunks, *)
(* each row with the id, text, metadata and distance of its chunk; on an    *)
(* empty store it returns the empty sequence.  It raises only when the      *)
(* embedding is not delivered.                                              *)
C16_SearchResults ==
    fpc = "done" =>
        LET store == disk.chunks
            n == Cardinality(DOMAIN store)
            emb == Embedding(inp.q)
        IN  IF inp.resp[1] # "vec" THEN out = Raised("embed", Len(inp.q))
            ELSE /\ out.kind = "ok"
                 /\ Len(out.val) = Min(inp.k, n)
                 /\ n = 0 => out.val = <<>>
                 /\ \A i \in 1..Len(out.val) :
                        /\ out.val[i].id \in DOMAIN store
                        /\ out.val[i].text = store[out.val[i].id].document
                        /\ out.val[i].metadata = store[out.val[i].id].metadata
                        /\ out.val[i].distance =
                             Distance(emb, store[out.val[i].id].embedding)
                 /\ \A i, j \in 1..Len(out.val) :
                        /\ i < j => out.val[i].distance <= out.val[j].distance
                        /\ i # j => out.val[i].id # out.val[j].id

C16_Witness ==
    /\ fpc = "done"
    /\ out.kind = "ok"
    /\ Cardinality(DOMAIN disk.chunks) = 3
    /\ inp.k = 2
    /\ Len(out.val) = 2
    /\ out.val[1].distance < out.val[2].distance

-----------------------------------------------------------------------------
(* Properties of ingest_text and embed_texts                                *)

(* C19: an ingest_text whose embed_texts raises, for whichever chunk,       *)
(* writes nothing to the store; one that returns has written, under every   *)
(* id it added, the vector the model gave for that chunk and no other.      *)
C19_EmbedAllOrNothing ==
    [][\A t \in Threads :
         IngestStep(t) =>
             LET x == arg'[t].text
                 ids == ChunkIds(_coerce_meta(arg'[t].metadata),
                                 Len(Parts[x]))
             IN  /\ EmbedFailed(ret'[t]) =>
                       /\ disk' = disk
                       /\ \E i \in 1..Len(Parts[x]) :
                              ret'[t].err.attempt = Len(Parts[x][i])
                 /\ ret'[t].kind = "ok" =>
                       \A id \in DOMAIN disk'.chunks \ DOMAIN disk.chunks :
                           \E i \in 1..Len(ids) :
                               /\ id = ids[i]
                               /\ disk'.chunks[id].embedding
                                     = Embedding(Parts[x][i])
                 /\ ret'[t].kind = "raised" => disk' = disk]_vars

C19_Witness ==
    \E t \in Threads :
        /\ pc[t] = "idle"
        /\ arg[t] # NoArg
        /\ arg[t].text = "long"
        /\ ret[t] = Raised("embed", Len(Parts["long"][2]))
        /\ \A id \in DOMAIN disk.chunks : disk.chunks[id].document.text # "long"

-----------------------------------------------------------------------------
(* Properties of do_ingest and ingest_file                                  *)

(* The loop of do_ingest is running or has run.                             *)
Confirmed == fpc \in {"loop", "file"} \/ (fpc = "done" /\ ci >= 1)

(* C17: in a confirmed bulk ingest the files are taken one by one in their  *)
(* order; each one's result or exception is reported for it, once, and the  *)
(* loop goes on to the next file whatever the result; at the end every file *)
(* has its report; and once a file has been ingested no stored chunk is     *)
(* removed or changed by the files after it.                                *)
C17_BulkContinues ==
    /\ [](Confirmed =>
            /\ Len(out) = ci - 1
            /\ ci <= Len(inp) + 1
            /\ \A i \in 1..Len(out) :
                   out[i].file = i /\ out[i].result.kind \in {"ok", "raised"}
            /\ fpc = "done" => Len(out) = Len(inp))
    /\ [][(Confirmed /\ fpc = "file" /\ fpc' # "file") =>
             /\ out' = Append(out, [file |-> ci, result |-> ret[Main]])
             /\ ci' = ci + 1
             /\ (ci < Len(inp) => fpc' = "loop")]_vars
    /\ [][(Confirmed /\ \E i \in 1..Len(out) : out[i].result.kind = "ok") =>
             \A id \in DOMAIN disk.chunks :
                 /\ id \in DOMAIN disk'.chunks
                 /\ disk'.chunks[id] = disk.chunks[id]]_vars

C17_Witness ==
    /\ fpc = "done"
    /\ Len(inp) = 2
    /\ Len(out) = 2
    /\ out[1].result.kind = "ok"
    /\ out[2].result.kind = "raised"
    /\ \E id \in DOMAIN disk.chunks : disk.chunks[id].document.text = inp[1].text

(* C18: an ingest_file whose path does not exist raises FileNotFoundError,  *)
(* one whose file's content cannot be read raises a ValueError, and in both *)
(* cases the store is as it was: nothing was embedded or written.           *)
C18_FileErrors ==
    [][(fpc = "loop" /\ fpc' = "file") =>
          LET f == inp[ci]
          IN  /\ f.at = "missing" =>
                    /\ ret'[Main] = Raised("FileNotFoundError", 0)
                    /\ disk' = disk
              /\ f.at \in {"denied", "undecodable", "corrupt"} =>
                    /\ ret'[Main].kind = "raised"
                    /\ IsValueError(ret'[Main].err.what)
                    /\ disk' = disk]_vars

====
